---------------------------- MODULE Spec2Model ----------------------------
(***************************************************************************)
(* Model of ThinkingTokenProcessor (src/thinking_tokens_demo.py) and of    *)
(* the removeDetails loop of src/test_thinking_tokens.py.                  *)
(*                                                                         *)
(* Texts are TLA+ strings, processed character by character exactly as     *)
(* the Python code does (Len, SubSeq and \o work on strings in TLC).  The  *)
(* regular expressions of the source are modelled by the scanning          *)
(* procedure the regex engine performs for those particular patterns:      *)
(* leftmost match, lazy group, greedy classes, non-overlapping iteration.  *)
(*                                                                         *)
(* A value that a step computes once and reads several times is handed on  *)
(* as an operator argument (SearchPair -> SearchEnd -> CloseMatch) rather  *)
(* than named in a LET, and scans are written as set comprehensions        *)
(* rather than character-by-character recursions: both keep TLC's          *)
(* evaluation and its coverage statistics small.                           *)
(*                                                                         *)
(* Not modelled: the wall-clock fields started_at / ended_at of a block    *)
(* (time.time() samples that no operation reads back), and the demo's      *)
(* printing and input loops.                                               *)
(***************************************************************************)
EXTENDS Integers, Sequences, FiniteSets, TLC

VARIABLES content, pc, processed, html, types, stripped

vars == <<content, pc, processed, html, types, stripped>>

(***************************************************************************)
(* Characters and the str methods the code uses.                           *)
(***************************************************************************)

\* The characters i..j of s (1-based, inclusive), clipped to s as a Python
\* slice is: empty when the range is.
Slice(s, i, j) ==
  LET lo == IF i < 1 THEN 1 ELSE i
      hi == IF j > Len(s) THEN Len(s) ELSE j
  IN  IF lo > hi THEN "" ELSE SubSeq(s, lo, hi)

\* The character of s at 1-based position i, as a one-character string.
CharAt(s, i) == Slice(s, i, i)

\* str.isspace() / the regex class \s, on the characters TLA+ can write.
Whitespace == {" ", "\t", "\n", "\r"}

\* The line boundaries of str.splitlines() on the characters TLA+ can write.
LineBreaks == {"\n", "\r"}

\* The least / greatest element of a set of positions, 0 for the empty set.
MinOrZero(S) == IF S = {} THEN 0 ELSE CHOOSE x \in S : \A y \in S : x <= y

MaxOrZero(S) == IF S = {} THEN 0 ELSE CHOOSE x \in S : \A y \in S : x >= y

\* Least position j >= i of s whose character is in (inside = TRUE) or not
\* in (inside = FALSE) the set chars; 0 if none.
FirstPos(s, i, chars, inside) ==
  MinOrZero({j \in i..Len(s) : (CharAt(s, j) \in chars) = inside})

\* Greatest such position j <= i; 0 if none.
LastPos(s, i, chars, inside) ==
  MaxOrZero({j \in 1..i : (CharAt(s, j) \in chars) = inside})

\* Case folding of re.IGNORECASE on ASCII letters.
CaseFold ==
  [A |-> "a", B |-> "b", C |-> "c", D |-> "d", E |-> "e", F |-> "f",
   G |-> "g", H |-> "h", I |-> "i", J |-> "j", K |-> "k", L |-> "l",
   M |-> "m", N |-> "n", O |-> "o", P |-> "p", Q |-> "q", R |-> "r",
   S |-> "s", T |-> "t", U |-> "u", V |-> "v", W |-> "w", X |-> "x",
   Y |-> "y", Z |-> "z"]

LowerChar(c) == IF c \in DOMAIN CaseFold THEN CaseFold[c] ELSE c

\* The characters i..j of s, each case-folded (by halves, so that the
\* evaluation stays shallow).
RECURSIVE LowerRange(_, _, _)
LowerRange(s, i, j) ==
  IF i > j THEN ""
  ELSE IF i = j THEN LowerChar(CharAt(s, i))
  ELSE LowerRange(s, i, (i + j) \div 2) \o LowerRange(s, (i + j) \div 2 + 1, j)

\* The text as the regex engine compares it under the given flags.
Folded(s, flags) ==
  IF "IGNORECASE" \in flags THEN LowerRange(s, 1, Len(s)) ELSE s

\* str.strip(): from the first to the last character that is no whitespace.
StripBetween(s, first, last) == IF first = 0 THEN "" ELSE Slice(s, first, last)

strip(s) ==
  StripBetween(s, FirstPos(s, 1, Whitespace, FALSE),
               LastPos(s, Len(s), Whitespace, FALSE))

\* Least position j >= i at which the literal lit occurs in s, 0 if none.
FindLiteral(s, lit, i) ==
  MinOrZero({j \in i..(Len(s) - Len(lit) + 1) :
               Slice(s, j, j + Len(lit) - 1) = lit})

\* str.replace(old, new): every non-overlapping occurrence, left to right;
\* ReplaceAt is the step at the occurrence j found from position i on.
RECURSIVE ReplaceFrom(_, _, _, _)
ReplaceAt(s, old, new, i, j) ==
  IF j = 0 THEN Slice(s, i, Len(s))
  ELSE Slice(s, i, j - 1) \o new \o ReplaceFrom(s, old, new, j + Len(old))

ReplaceFrom(s, old, new, i) == ReplaceAt(s, old, new, i, FindLiteral(s, old, i))

replace(s, old, new) == ReplaceFrom(s, old, new, 1)

\* sep.join(parts)
RECURSIVE JoinFrom(_, _, _)
JoinFrom(parts, sep, i) ==
  IF i > Len(parts) THEN ""
  ELSE IF i = Len(parts) THEN parts[i]
  ELSE parts[i] \o sep \o JoinFrom(parts, sep, i + 1)

join(sep, parts) == JoinFrom(parts, sep, 1)

\* The position after the line boundary at b: "\r\n" is one boundary.
AfterBreak(s, b) ==
  IF CharAt(s, b) = "\r" /\ CharAt(s, b + 1) = "\n" THEN b + 2 ELSE b + 1

\* str.splitlines(): the lines of s without their line boundaries; no empty
\* last line after a final boundary.  SplitAt is the step for the line that
\* starts at i and whose boundary is at b (0: none).
RECURSIVE SplitLinesFrom(_, _)
SplitAt(s, i, b) ==
  IF i > Len(s) THEN <<>>
  ELSE IF b = 0 THEN <<Slice(s, i, Len(s))>>
  ELSE <<Slice(s, i, b - 1)>> \o SplitLinesFrom(s, AfterBreak(s, b))

SplitLinesFrom(s, i) == SplitAt(s, i, FirstPos(s, i, LineBreaks, TRUE))

splitlines(s) == SplitLinesFrom(s, 1)

\* str.startswith(prefix)
startswith(s, prefix) ==
  Len(s) >= Len(prefix) /\ Slice(s, 1, Len(prefix)) = prefix

(***************************************************************************)
(* detect_reasoning_tags                                                   *)
(***************************************************************************)

\* The last pair's delimiters are non-ASCII in the source (the six characters
\* U+00E2 U+2014 ... U+00E2 U+2013 U+00B7 around "think"); a TLA+ string
\* holds ASCII only, so "~" stands for U+00E2, "^" for U+2014, "$" for
\* U+2013 and "#" for U+00B7, one character each.  No input of the model
\* uses these four characters for anything else.
DEFAULT_REASONING_TAGS ==
  << <<"<think>", "</think>">>,
     <<"<thinking>", "</thinking>">>,
     <<"<reason>", "</reason>">>,
     <<"<reasoning>", "</reasoning>">>,
     <<"<thought>", "</thought>">>,
     <<"<Thought>", "</Thought>">>,
     <<"<|begin_of_thought|>", "<|end_of_thought|>">>,
     <<"~^think~$#", "~^/think~$#">> >>

\* The flags detect_reasoning_tags hands to re.finditer.
DetectFlags == {"DOTALL", "IGNORECASE"}

\* Whether "." may match every character of s (no "\n" unless DOTALL).
DotMatchesAll(s, flags) ==
  "DOTALL" \in flags \/ FindLiteral(s, "\n", 1) = 0

NoMatch == [found |-> FALSE, start |-> 0, end |-> 0]

\* The leftmost match of  escape(start_tag)(.*?)escape(end_tag)  that starts
\* at or after position p of s.  f is s, and fstart and fend are the two
\* literals, as the engine compares them under the flags.  The result has
\* [start, end) 1-based, end exclusive (match.start() + 1, match.end() + 1).
\* SearchEnd: the start literal was found at a (0: nowhere); the lazy group
\* then ends at the nearest end literal after it.  CloseMatch: that end
\* literal is at b (0: none, and then no later start has one either); the
\* match stands if "." matches the whole group, else the search resumes
\* behind a.
RECURSIVE SearchPair(_, _, _, _, _, _)
CloseMatch(s, f, fstart, fend, flags, a, b) ==
  IF b = 0 THEN NoMatch
  ELSE IF DotMatchesAll(Slice(s, a + Len(fstart), b - 1), flags)
  THEN [found |-> TRUE, start |-> a, end |-> b + Len(fend)]
  ELSE SearchPair(s, f, fstart, fend, flags, a + 1)

SearchEnd(s, f, fstart, fend, flags, a) ==
  IF a = 0 THEN NoMatch
  ELSE CloseMatch(s, f, fstart, fend, flags, a,
                  FindLiteral(f, fend, a + Len(fstart)))

SearchPair(s, f, fstart, fend, flags, p) ==
  SearchEnd(s, f, fstart, fend, flags, FindLiteral(f, fstart, p))

\* re.finditer(pattern, content, flags): the non-overlapping matches, left
\* to right; a match is never empty, so the scan resumes at its end.
\* MatchAndRest is the step for the match m found from the current position.
RECURSIVE FindIterFrom(_, _, _, _, _, _)
MatchAndRest(s, f, fstart, fend, flags, m) ==
  IF ~m.found THEN <<>>
  ELSE <<[start |-> m.start, end |-> m.end,
          group0 |-> Slice(s, m.start, m.end - 1),
          group1 |-> Slice(s, m.start + Len(fstart), m.end - Len(fend) - 1)]>>
       \o FindIterFrom(s, f, fstart, fend, flags, m.end)

FindIterFrom(s, f, fstart, fend, flags, p) ==
  MatchAndRest(s, f, fstart, fend, flags,
               SearchPair(s, f, fstart, fend, flags, p))

finditer(s, start_tag, end_tag, flags) ==
  FindIterFrom(s, Folded(s, flags), Folded(start_tag, flags),
               Folded(end_tag, flags), flags, 1)

\* match.group(1).strip() if match.group(1) else ""
reasoning_content(m) == IF m.group1 # "" THEN strip(m.group1) ELSE ""

\* The matches ms of one pair, each with the pair that produced it.
TagMatches(ms, tag) ==
  [i \in 1..Len(ms) |->
     [start |-> ms[i].start, end |-> ms[i].end,
      group0 |-> ms[i].group0, group1 |-> ms[i].group1,
      start_tag |-> tag[1], end_tag |-> tag[2]]]

\* The matches of one pair that pass "if reasoning_content".
KeptMatches(s, tag) ==
  SelectSeq(TagMatches(finditer(s, tag[1], tag[2], DetectFlags), tag),
            LAMBDA m : reasoning_content(m) # "")

\* The matches behind the blocks of detect_reasoning_tags, in the order the
\* two nested loops append them.
RECURSIVE MatchesFrom(_, _)
MatchesFrom(s, k) ==
  IF k > Len(DEFAULT_REASONING_TAGS) THEN <<>>
  ELSE KeptMatches(s, DEFAULT_REASONING_TAGS[k]) \o MatchesFrom(s, k + 1)

reasoning_matches(s) == MatchesFrom(s, 1)

\* The dictionary appended for one match.
Block(m) ==
  [type |-> "reasoning",
   start_tag |-> m.start_tag,
   end_tag |-> m.end_tag,
   content |-> reasoning_content(m),
   duration |-> 1,
   original_match |-> m.group0]

BlocksOf(ms) == [i \in 1..Len(ms) |-> Block(ms[i])]

detect_reasoning_tags(s) == BlocksOf(reasoning_matches(s))

(***************************************************************************)
(* process_content                                                         *)
(***************************************************************************)

\* The loop  for block in reasoning_blocks: processed_content =
\* processed_content.replace(block["original_match"], "")  from block k on.
RECURSIVE RemoveBlocksFrom(_, _, _)
RemoveBlocksFrom(s, bs, k) ==
  IF k > Len(bs) THEN s
  ELSE RemoveBlocksFrom(replace(s, bs[k].original_match, ""), bs, k + 1)

\* End (exclusive) of the maximal run of whitespace that starts at i; j is
\* the first position from i on that holds no whitespace (0: none).
RunEnd(s, i, j) == IF j # 0 THEN j ELSE IF i > Len(s) THEN i ELSE Len(s) + 1

SpaceRunEnd(s, i) == RunEnd(s, i, FirstPos(s, i, Whitespace, FALSE))

\* Greatest position j in lo..hi with s[j] = "\n", 0 if none.
LastNewline(s, lo, hi) ==
  MaxOrZero({j \in lo..hi : CharAt(s, j) = "\n"})

\* re.sub(r'\n\s*\n', '\n\n', s) from position i on.  CollapseAt: the next
\* "\n" is at n (0: none).  CollapseRun: the greedy \s* after it runs to the
\* end of the whitespace and backtracks to the last "\n" of the run, at k;
\* the match n..k is replaced and the scan resumes after it.  With no second
\* "\n" in the run (k = 0) the "\n" at n is copied.
RECURSIVE CollapseFrom(_, _)
CollapseRun(s, i, n, k) ==
  IF k = 0 THEN Slice(s, i, n) \o CollapseFrom(s, n + 1)
  ELSE Slice(s, i, n - 1) \o "\n\n" \o CollapseFrom(s, k + 1)

CollapseAt(s, i, n) ==
  IF n = 0 THEN Slice(s, i, Len(s))
  ELSE CollapseRun(s, i, n, LastNewline(s, n + 1, SpaceRunEnd(s, n + 1) - 1))

CollapseFrom(s, i) == CollapseAt(s, i, FindLiteral(s, "\n", i))

\* A variant that collapses the blank lines and leaves the ends untrimmed.
CleanWhitespace_untrimmed(s) == CollapseFrom(s, 1)

\* re.sub(r'\n\s*\n', '\n\n', processed_content).strip()
CleanWhitespace(s) == strip(CollapseFrom(s, 1))

RECURSIVE SumDurations(_, _)
SumDurations(bs, k) ==
  IF k > Len(bs) THEN 0 ELSE bs[k].duration + SumDurations(bs, k + 1)

\* The dictionary process_content returns.
ProcessedDataOf(reasoning_blocks, main_content) ==
  [main_content |-> main_content,
   reasoning_blocks |-> reasoning_blocks,
   total_reasoning_time |-> SumDurations(reasoning_blocks, 1)]

\* The body of process_content after its call of detect_reasoning_tags.
ProcessedData(s, reasoning_blocks) ==
  ProcessedDataOf(reasoning_blocks,
                  CleanWhitespace(RemoveBlocksFrom(s, reasoning_blocks, 1)))

process_content(s) == ProcessedData(s, detect_reasoning_tags(s))

(***************************************************************************)
(* generate_html_output                                                    *)
(***************************************************************************)

\* f"> {line}" if not line.startswith(">") else line, joined by "\n".
QuoteLines(lines) ==
  join("\n", [i \in 1..Len(lines) |->
                IF startswith(lines[i], ">") THEN lines[i]
                ELSE "> " \o lines[i]])

formatted_reasoning(reasoning) == QuoteLines(splitlines(reasoning))

\* A variant whose summary always reads "seconds".
html_block_plural(block) ==
  "<details type=\"reasoning\" done=\"true\" duration=\""
    \o ToString(block.duration) \o "\">\n"
    \o "<summary>Thought for " \o ToString(block.duration) \o " seconds"
    \o "</summary>\n"
    \o formatted_reasoning(block.content) \o "\n"
    \o "</details>"

html_block(block) ==
  "<details type=\"reasoning\" done=\"true\" duration=\""
    \o ToString(block.duration) \o "\">\n"
    \o "<summary>Thought for " \o ToString(block.duration) \o " second"
    \o (IF block.duration # 1 THEN "s" ELSE "") \o "</summary>\n"
    \o formatted_reasoning(block.content) \o "\n"
    \o "</details>"

\* A variant that appends main_content whether or not it is empty.
html_parts_always(bs, main_content) ==
  [i \in 1..Len(bs) |-> html_block(bs[i])] \o <<main_content>>

\* A variant that leaves out a block whose matched text lies within the
\* matched text of an earlier block, or holds it.
html_parts_disjoint(bs, main_content) ==
  LET kept == {i \in 1..Len(bs) :
                 \A j \in 1..(i - 1) :
                   /\ FindLiteral(bs[j].original_match, bs[i].original_match, 1) = 0
                   /\ FindLiteral(bs[i].original_match, bs[j].original_match, 1) = 0}
      idx == SelectSeq([i \in 1..Len(bs) |-> i], LAMBDA i : i \in kept)
  IN [k \in 1..Len(idx) |-> html_block(bs[idx[k]])]
       \o (IF main_content # "" THEN <<main_content>> ELSE <<>>)

\* html_parts after the loop over the blocks and the "if main_content".
html_parts(bs, main_content) ==
  [i \in 1..Len(bs) |-> html_block(bs[i])]
    \o (IF main_content # "" THEN <<main_content>> ELSE <<>>)

generate_html_output(processed_data) ==
  join("\n\n", html_parts(processed_data.reasoning_blocks,
                          processed_data.main_content))

(***************************************************************************)
(* removeDetails (the loop of test_remove_details_functionality)           *)
(***************************************************************************)

\* A variant of the flags without re.IGNORECASE.
RemoveFlags_dotall == {"DOTALL"}

\* The flags the loop hands to re.sub.
RemoveFlags == {"DOTALL", "IGNORECASE"}

\* The leftmost match of  <details\s+type="{type_name}"[^>]*>.*?</details>
\* that starts at or after position p, for a type_name of word characters
\* (which the regex engine reads as a literal).  f is s and attr is
\* type="{type_name}" as the engine compares them under the flags.
\* DetailsOpen: "<details" was found at a.  \s+ is greedy and the next
\* pattern character is no whitespace, so it takes the whole whitespace run,
\* which ends at w.  DetailsClose: [^>]* stops at the first ">", at g, and
\* .*? at the nearest "</details>" after it, at e; without either, no later
\* start can match.
RECURSIVE SearchDetails(_, _, _, _, _)
DetailsClose(s, f, attr, flags, a, g, e) ==
  IF g = 0 \/ e = 0 THEN NoMatch
  ELSE IF DotMatchesAll(Slice(s, g + 1, e - 1), flags)
  THEN [found |-> TRUE, start |-> a, end |-> e + Len("</details>")]
  ELSE SearchDetails(s, f, attr, flags, a + 1)

DetailsGt(s, f, attr, flags, a, g) ==
  DetailsClose(s, f, attr, flags, a, g,
               IF g = 0 THEN 0
               ELSE FindLiteral(f, Folded("</details>", flags), g + 1))

DetailsOpen(s, f, attr, flags, a, w) ==
  IF a = 0 THEN NoMatch
  ELSE IF w = a + Len("<details") \/ Slice(f, w, w + Len(attr) - 1) # attr
  THEN SearchDetails(s, f, attr, flags, a + 1)
  ELSE DetailsGt(s, f, attr, flags, a, FindLiteral(s, ">", w + Len(attr)))

DetailsAt(s, f, attr, flags, a) ==
  DetailsOpen(s, f, attr, flags, a, SpaceRunEnd(s, a + Len("<details")))

SearchDetails(s, f, attr, flags, p) ==
  DetailsAt(s, f, attr, flags, FindLiteral(f, Folded("<details", flags), p))

\* re.sub(pattern, '', content, flags) from position i on; CutMatch is the
\* step for the match m found from i on.
RECURSIVE SubDetailsFrom(_, _, _, _, _)
CutMatch(s, f, attr, flags, i, m) ==
  IF ~m.found THEN Slice(s, i, Len(s))
  ELSE Slice(s, i, m.start - 1) \o SubDetailsFrom(s, f, attr, flags, m.end)

SubDetailsFrom(s, f, attr, flags, i) ==
  CutMatch(s, f, attr, flags, i, SearchDetails(s, f, attr, flags, i))

sub_details(s, type_name, flags) ==
  SubDetailsFrom(s, Folded(s, flags),
                 Folded("type=\"" \o type_name \o "\"", flags), flags, 1)

\* for type_name in types_to_remove: content = re.sub(...), from type k on.
RECURSIVE RemoveDetailsFrom(_, _, _)
RemoveDetailsFrom(s, types_to_remove, k) ==
  IF k > Len(types_to_remove) THEN s
  ELSE RemoveDetailsFrom(sub_details(s, types_to_remove[k], RemoveFlags),
                         types_to_remove, k + 1)

remove_details(s, types_to_remove) == RemoveDetailsFrom(s, types_to_remove, 1)

(***************************************************************************)
(* The inputs: the texts handed to the processor.                          *)
(***************************************************************************)

\* Longest text between a start and an end marker, in characters.
MaxContent == 2

\* Longest text without any marker, in characters.
MaxPlain == 5

\* The characters of unmarked text: a letter, a blank and a line break.
PlainChars == {"a", " ", "\n", "\r"}

\* Every string of at most n plain characters.
RECURSIVE StringsUpTo(_)
StringsUpTo(n) ==
  IF n = 0 THEN {""}
  ELSE LET shorter == StringsUpTo(n - 1)
       IN  shorter \cup {t \o c : t \in shorter, c \in PlainChars}

UpperChar(c) ==
  IF \E k \in DOMAIN CaseFold : CaseFold[k] = c
  THEN CHOOSE k \in DOMAIN CaseFold : CaseFold[k] = c
  ELSE c

RECURSIVE UpperRange(_, _, _)
UpperRange(s, i, j) ==
  IF i > j THEN ""
  ELSE IF i = j THEN UpperChar(CharAt(s, i))
  ELSE LET mid == (i + j) \div 2
       IN  UpperRange(s, i, mid) \o UpperRange(s, mid + 1, j)

Upper(s) == UpperRange(s, 1, Len(s))

Pairs == {DEFAULT_REASONING_TAGS[k] : k \in 1..Len(DEFAULT_REASONING_TAGS)}

\* What a text may carry around one region: each configured pair as the
\* table writes it and, for the first and the fifth pair, the pair in
\* capitals, the start marker alone, and the start marker closed by the end
\* marker in capitals.
TagForms ==
  {<<t[1], t[2]>> : t \in Pairs}
  \cup UNION {{<<Upper(t[1]), Upper(t[2])>>, <<t[1], "">>,
               <<t[1], Upper(t[2])>>} :
                t \in {DEFAULT_REASONING_TAGS[1], DEFAULT_REASONING_TAGS[5]}}

\* prefix + start + content + end + suffix
Prefixes == {"", "a\n"}

Suffixes == {"", " ", "\na"}

SingleTexts ==
  {pre \o f[1] \o c \o f[2] \o suf :
     pre \in Prefixes, f \in TagForms, c \in StringsUpTo(MaxContent),
     suf \in Suffixes}

\* Two different pairs of the table, in either order.
TwoPairs == {x \in Pairs \X Pairs : x[1] # x[2]}

\* Two regions of two different pairs, one after the other.
Between == {"", "\n\n"}

After == {"", "a"}

TwoPairTexts ==
  {x[1][1] \o "a" \o x[1][2] \o f1 \o x[2][1] \o "b" \o x[2][2] \o f2 :
     f1 \in Between, f2 \in After, x \in TwoPairs}

\* A region of one pair inside a region of another, and two regions of two
\* pairs that straddle each other.
NestedTexts ==
  {x[1][1] \o c0 \o x[2][1] \o "b" \o x[2][2] \o c2 \o x[1][2] :
     c0 \in {"", "a"}, c2 \in {"", "a"}, x \in TwoPairs}
  \cup
  {x[1][1] \o "a" \o x[2][1] \o "b" \o x[1][2] \o "a" \o x[2][2] :
     x \in TwoPairs}

\* A terminated pair written inside the start literal of a second
\* occurrence of the same pair: with the inner region taken out, the pieces
\* around it join to a start literal.
SplicedTexts ==
  {Slice(t[1], 1, 2) \o t[1] \o "a" \o t[2]
     \o Slice(t[1], 3, Len(t[1])) \o "b" \o t[2] : t \in Pairs}

Texts ==
  StringsUpTo(MaxPlain) \cup SingleTexts \cup TwoPairTexts \cup NestedTexts
    \cup SplicedTexts

(***************************************************************************)
(* The state machine: one call of each method on one text.                 *)
(***************************************************************************)

NoData == [main_content |-> "", reasoning_blocks |-> <<>>,
           total_reasoning_time |-> 0]

Init ==
  /\ content \in Texts
  /\ pc = "start"
  /\ processed = NoData
  /\ html = ""
  /\ types = <<>>
  /\ stripped = ""

\* processed = processor.process_content(content)
ProcessContent ==
  /\ pc = "start"
  /\ processed' = process_content(content)
  /\ pc' = "processed"
  /\ UNCHANGED <<content, html, types, stripped>>

\* html_output = processor.generate_html_output(processed)
GenerateHtmlOutput ==
  /\ pc = "processed"
  /\ html' = generate_html_output(processed)
  /\ pc' = "rendered"
  /\ UNCHANGED <<content, processed, types, stripped>>

Next == ProcessContent \/ GenerateHtmlOutput

Spec == Init /\ [][Next]_vars

(***************************************************************************)
(* The state machine of removeDetails: one run of the loop on one text.    *)
(***************************************************************************)

\* Greatest number of pieces a text is put together from.
MaxChunks == 3

\* The pieces: plain text, opening wrappers of the two requested types, the
\* closing wrapper, and whole blocks: one in capitals, one of a type that is
\* never requested, one with line breaks in the wrapper and in the body.
Chunks ==
  {"x",
   "<details type=\"reasoning\" done=\"true\">",
   "<details type=\"code_interpreter\">",
   "</details>",
   "<DETAILS  TYPE=\"Reasoning\">r</DETAILS>",
   "<details type=\"other\">o</details>",
   "<details\ntype=\"code_interpreter\" open>\nc\n</details>"}

RECURSIVE ChunkTexts(_)
ChunkTexts(n) ==
  IF n = 0 THEN {""}
  ELSE LET shorter == ChunkTexts(n - 1)
       IN shorter \cup {t \o c : t \in shorter, c \in Chunks}

\* types_to_remove of the source, and its sublists and reorderings.
TypeLists ==
  {<<>>, <<"reasoning">>, <<"code_interpreter">>,
   <<"reasoning", "code_interpreter">>, <<"code_interpreter", "reasoning">>}

InitRemove ==
  /\ content \in ChunkTexts(MaxChunks)
  /\ types \in TypeLists
  /\ pc = "start"
  /\ processed = NoData
  /\ html = ""
  /\ stripped = ""

RemoveDetails ==
  /\ pc = "start"
  /\ stripped' = remove_details(content, types)
  /\ pc' = "stripped"
  /\ UNCHANGED <<content, processed, html, types>>

NextRemove == RemoveDetails

SpecRemove == InitRemove /\ [][NextRemove]_vars

(***************************************************************************)
(* The state machine of rendering alone: generate_html_output on processed *)
(* data that a caller put together, the durations of its blocks free.      *)
(***************************************************************************)

\* Greatest duration of a block, in seconds.
MaxDuration == 12

\* The reasoning texts of such blocks: one line, two lines, a quoted line.
BlockContents == {"a", "a\nb", ">a"}

\* A block as detect_reasoning_tags builds it, with duration d.
BlockWith(c, d) ==
  [type |-> "reasoning", start_tag |-> "<thinking>", end_tag |-> "</thinking>",
   content |-> c, duration |-> d,
   original_match |-> "<thinking>" \o c \o "</thinking>"]

RenderBlocks == {BlockWith(c, d) : c \in BlockContents, d \in 0..MaxDuration}

RenderData ==
  {ProcessedDataOf(bs, m) :
     bs \in {<<b>> : b \in RenderBlocks}
              \cup {<<b1, b2>> : b1 \in RenderBlocks, b2 \in RenderBlocks},
     m \in {"", "a"}}

InitRender ==
  /\ content = ""
  /\ processed \in RenderData
  /\ pc = "processed"
  /\ html = ""
  /\ types = <<>>
  /\ stripped = ""

NextRender == GenerateHtmlOutput

SpecRender == InitRender /\ [][NextRender]_vars

(***************************************************************************)
(* Properties.                                                             *)
(***************************************************************************)

\* The spans detect_reasoning_tags returned for content (process_content
\* hands them on unchanged) and the residual text.
Spans == processed.reasoning_blocks

Residual == processed.main_content

Processed == pc \in {"processed", "rendered"}

endswith(s, suffix) ==
  Len(s) >= Len(suffix) /\ Slice(s, Len(s) - Len(suffix) + 1, Len(s)) = suffix

\* C1.  For every text prefix + start + content + end + suffix, (start, end)
\* one configured pair and prefix, content, suffix free of markers, there is
\* exactly one span, its content is the trimmed content, and the residual
\* text is the whitespace-normalized prefix + suffix.
C1_SinglePairSpan ==
  Processed =>
    \A t \in Pairs, pre \in Prefixes, c \in StringsUpTo(MaxContent),
       suf \in Suffixes :
      content = pre \o t[1] \o c \o t[2] \o suf =>
        /\ Len(Spans) = 1
        /\ Spans[1].content = strip(c)
        /\ Residual = CleanWhitespace(pre \o suf)

\* C2.  Matching is case-sensitive and literal: the region of every span
\* begins with the start literal and ends with the end literal of the pair
\* the span is attributed to, letter case included.
C2_CaseSensitive ==
  Processed =>
    \A i \in 1..Len(Spans) :
      /\ startswith(Spans[i].original_match, Spans[i].start_tag)
      /\ endswith(Spans[i].original_match, Spans[i].end_tag)

\* The characters of s outside every region [start, end) of the set rs, in
\* order.
RECURSIVE OutsideRange(_, _, _, _)
OutsideRange(s, rs, i, j) ==
  IF i > j THEN ""
  ELSE IF i = j
  THEN IF \E r \in rs : r.start <= i /\ i < r.end THEN "" ELSE CharAt(s, i)
  ELSE OutsideRange(s, rs, i, (i + j) \div 2)
         \o OutsideRange(s, rs, (i + j) \div 2 + 1, j)

DeleteRegions(s, rs) == OutsideRange(s, rs, 1, Len(s))

Regions(ms) == {[start |-> ms[k].start, end |-> ms[k].end] : k \in 1..Len(ms)}

\* C3.  The residual text is the text with the full matched region of every
\* reported span deleted, then whitespace-normalized, also when regions nest
\* or coincide.
C3_RegionSubtraction ==
  Processed =>
    Residual = CleanWhitespace(DeleteRegions(content,
                                             Regions(reasoning_matches(content))))

\* C4.  A terminated pair whose content is empty or only whitespace is a
\* match: it is reported, and its region is removed from the residual text.
C4_EmptyContentMatch ==
  Processed =>
    \A t \in Pairs, pre \in Prefixes, c \in StringsUpTo(MaxContent),
       suf \in Suffixes :
      (content = pre \o t[1] \o c \o t[2] \o suf /\ strip(c) = "") =>
        /\ Len(Spans) >= 1
        /\ Residual = CleanWhitespace(pre \o suf)

\* C5.  A text with a start literal and no matching end literal after it
\* (the start marker alone, or followed by the end marker in another letter
\* case) yields no span, and the residual text is the whitespace-normalized
\* input, the start literal still in it.
C5_Unterminated ==
  Processed =>
    \A t \in {DEFAULT_REASONING_TAGS[1], DEFAULT_REASONING_TAGS[5]},
       close \in {<<"">>, <<"upper">>},
       pre \in Prefixes, c \in StringsUpTo(MaxContent), suf \in Suffixes :
      content = pre \o t[1] \o c
                  \o (IF close[1] = "" THEN "" ELSE Upper(t[2])) \o suf =>
        /\ Spans = <<>>
        /\ Residual = CleanWhitespace(content)
        /\ FindLiteral(Residual, t[1], 1) # 0

\* C6.  A text with one terminated region of each of two different pairs,
\* side by side, yields exactly two spans, each carrying the literals of the
\* pair written at its region, and a residual text without both regions.
C6_TwoPairs ==
  Processed =>
    \A x \in TwoPairs, f1 \in Between, f2 \in After :
      content = x[1][1] \o "a" \o x[1][2] \o f1 \o x[2][1] \o "b" \o x[2][2] \o f2 =>
        /\ Len(Spans) = 2
        /\ {<<Spans[i].start_tag, Spans[i].end_tag>> : i \in 1..Len(Spans)}
             = {x[1], x[2]}
        /\ \A i \in 1..Len(Spans) :
             /\ startswith(Spans[i].original_match, Spans[i].start_tag)
             /\ endswith(Spans[i].original_match, Spans[i].end_tag)
        /\ Residual = CleanWhitespace(f1 \o f2)

\* Two of the reported spans cover regions of content that share at least
\* one character.
Intersecting(ms) ==
  \E i, j \in 1..Len(ms) :
    i < j /\ ms[i].start < ms[j].end /\ ms[j].start < ms[i].end

SpansIntersect ==
  Len(Spans) >= 2 /\ Intersecting(reasoning_matches(content))

\* Number of positions of s at which lit occurs.
CountOf(s, lit) ==
  Cardinality({i \in 1..Len(s) : Slice(s, i, i + Len(lit) - 1) = lit})

OneBlockPerSpan(doc, n) ==
  /\ CountOf(doc, "<details type=\"reasoning\"") = n
  /\ CountOf(doc, "</details>") = n

TagIndex(m) ==
  CHOOSE k \in 1..Len(DEFAULT_REASONING_TAGS) :
    DEFAULT_REASONING_TAGS[k] = <<m.start_tag, m.end_tag>>

\* The blocks of bs from block k on, a blank line between two of them.
RECURSIVE BlocksText(_, _)
BlocksText(bs, k) ==
  IF k > Len(bs) THEN ""
  ELSE html_block(bs[k]) \o (IF k < Len(bs) THEN "\n\n" ELSE "")
         \o BlocksText(bs, k + 1)

\* C9.  The rendered document is one block per span, in discovery order
\* (pair by pair in table order, left to right within a pair), a blank line
\* between consecutive blocks, then a blank line and the residual text iff
\* the trimmed residual text is non-empty; without spans it is the residual
\* text.
C9_DocumentStructure ==
  pc = "rendered" =>
    /\ html = IF Spans = <<>> THEN Residual
              ELSE BlocksText(Spans, 1)
                     \o (IF strip(Residual) # "" THEN "\n\n" \o Residual ELSE "")
    /\ LET ms == reasoning_matches(content)
       IN /\ Len(ms) = Len(Spans)
          /\ \A i \in 1..Len(ms) : Spans[i].original_match = ms[i].group0
          /\ \A i, j \in 1..Len(ms) :
               i < j => \/ TagIndex(ms[i]) < TagIndex(ms[j])
                        \/ /\ TagIndex(ms[i]) = TagIndex(ms[j])
                           /\ ms[i].start < ms[j].start

C9_BlocksAndResidual ==
  /\ pc = "rendered"
  /\ Len(Spans) >= 2
  /\ Residual # ""
  /\ endswith(html, "</details>\n\n" \o Residual)

\* The lines of s, "\n" the line terminator (s.split("\n")).
RECURSIVE NewlineSplit(_, _)
NewlineSplitAt(s, i, n) ==
  IF n = 0 THEN <<Slice(s, i, Len(s))>>
  ELSE <<Slice(s, i, n - 1)>> \o NewlineSplit(s, n + 1)

NewlineSplit(s, i) == NewlineSplitAt(s, i, FindLiteral(s, "\n", i))

IsBlank(line) == \A i \in 1..Len(line) : CharAt(line, i) \in Whitespace

\* The non-blank lines of ls from line k on, each unchanged; prev is the
\* number of the last non-blank line before k (0: none).  Two that were
\* adjacent stay so; two with blank lines between them get one empty line.
RECURSIVE Rebuild(_, _, _)
Rebuild(ls, k, prev) ==
  IF k > Len(ls) THEN ""
  ELSE IF IsBlank(ls[k]) THEN Rebuild(ls, k + 1, prev)
  ELSE (IF prev = 0 THEN "" ELSE IF prev = k - 1 THEN "\n" ELSE "\n\n")
         \o ls[k] \o Rebuild(ls, k + 1, k)

\* The text left when every span's matched text has been taken out.
SpanFree == RemoveBlocksFrom(content, Spans, 1)

\* C10.  After process_content, main_content has no whitespace at either
\* end, no two consecutive blank (empty or whitespace-only) lines, and is the
\* trimmed span-free text with every run of blank lines made one empty line
\* and every other line unchanged.  Lines end at "\n".
C10_NormalizedResidual ==
  Processed =>
    /\ Residual # "" =>
         /\ CharAt(Residual, 1) \notin Whitespace
         /\ CharAt(Residual, Len(Residual)) \notin Whitespace
    /\ LET ls == NewlineSplit(Residual, 1)
       IN \A i \in 1..(Len(ls) - 1) : ~(IsBlank(ls[i]) /\ IsBlank(ls[i + 1]))
    /\ Residual = Rebuild(NewlineSplit(strip(SpanFree), 1), 1, 0)

C10_RunCollapsed ==
  /\ Processed
  /\ \E i \in 1..Len(SpanFree) :
       /\ CharAt(SpanFree, i) \notin Whitespace
       /\ Slice(SpanFree, i + 1, i + 3) \in {"\n\n\n", "\n \n", "\n\r\n"}
       /\ i + 4 <= Len(SpanFree)
       /\ CharAt(SpanFree, i + 4) \notin Whitespace
  /\ FindLiteral(Residual, "\n\n", 1) # 0

Lower(s) == LowerRange(s, 1, Len(s))

TypeAttr(type_name) == Lower("type=\"" \o type_name \o "\"")

\* The end (exclusive) of the region that an opening wrapper at position a
\* starts, 0 if a starts none; f is the text in small letters and attr is
\* TypeAttr of the type.  A region is "<details", one or more whitespace
\* characters, type="type_name", any characters but ">", ">", and everything
\* through the nearest "</details>" after it, letters compared without
\* regard to case.
RegionEnd(f, a, attr) ==
  LET w == MinOrZero({i \in (a + 8)..Len(f) : CharAt(f, i) \notin Whitespace})
      g == IF w = 0 THEN 0
           ELSE MinOrZero({i \in (w + Len(attr))..Len(f) : CharAt(f, i) = ">"})
      e == IF g = 0 THEN 0
           ELSE MinOrZero({i \in (g + 1)..Len(f) :
                             Slice(f, i, i + 9) = "</details>"})
  IN IF /\ Slice(f, a, a + 7) = "<details"
        /\ w > a + 8
        /\ Slice(f, w, w + Len(attr) - 1) = attr
        /\ e # 0
     THEN e + 10 ELSE 0

\* The regions of text f (in small letters) that the opening wrappers of one
\* type start.
TypeRegions(f, attr) ==
  {[start |-> a, end |-> RegionEnd(f, a, attr)] :
     a \in {i \in 1..Len(f) : RegionEnd(f, i, attr) # 0}}

\* Every region of s that an opening wrapper of a requested type starts.
AllRegions(s, ts) ==
  UNION {TypeRegions(Lower(s), TypeAttr(ts[k])) : k \in 1..Len(ts)}

\* C8 as stated.  The result is the text without every region from an
\* opening wrapper of a requested type through the nearest following
\* "</details>", every character outside those regions kept in order.
C8_RegionsOfTheText ==
  pc = "stripped" => stripped = DeleteRegions(content, AllRegions(content, types))

\* Of the regions rs of one type, those taken from position p on from left
\* to right, each starting at the first opening wrapper at or after the end
\* of the one before it.
RECURSIVE LeftmostRegions(_, _)
LeftmostRegions(rs, p) ==
  LET later == {r \in rs : r.start >= p}
  IN IF later = {} THEN {}
     ELSE LET first == CHOOSE r \in later : \A q \in later : r.start <= q.start
          IN {first} \cup LeftmostRegions(rs, first.end)

PassRegions(s, type_name) ==
  LeftmostRegions(TypeRegions(Lower(s), TypeAttr(type_name)), 1)

\* One pass per requested type, in list order from type k on, each on the
\* result of the pass before it.
RECURSIVE PassByPass(_, _, _)
PassByPass(s, ts, k) ==
  IF k > Len(ts) THEN s
  ELSE PassByPass(DeleteRegions(s, PassRegions(s, ts[k])), ts, k + 1)

\* C8, amended.  The result is reached by one pass per requested type, in
\* the order of the list, each pass working on the result of the pass before
\* it: a pass removes, from left to right, each region from an opening
\* wrapper of its type (any letter case, further attributes allowed before
\* ">") through the nearest following "</details>", a region starting only
\* where the one before it has ended, and keeps every other character,
\* blocks of non-requested types included, in order.
C8_PassPerType ==
  pc = "stripped" => stripped = PassByPass(content, types, 1)

C8_BothTypesRemoved ==
  /\ pc = "stripped"
  /\ Len(types) = 2
  /\ PassRegions(content, types[1]) # {}
  /\ PassRegions(content, types[2]) # {}
  /\ FindLiteral(content, "<DETAILS", 1) # 0
  /\ stripped = "x"

\* The decimal numeral of d >= 0.
DigitChars == <<"0", "1", "2", "3", "4", "5", "6", "7", "8", "9">>

RECURSIVE Decimal(_)
Decimal(d) ==
  IF d < 10 THEN DigitChars[d + 1]
  ELSE Decimal(d \div 10) \o DigitChars[(d % 10) + 1]

\* Position of the n-th "<details " of doc, 0 if there are fewer.
DetailsStart(doc, n) ==
  LET at == {i \in 1..Len(doc) : Slice(doc, i, i + 8) = "<details "}
      nth == {i \in at : Cardinality({j \in at : j <= i}) = n}
  IN MinOrZero(nth)

\* The header line and the summary line of a block of duration d.
HeaderAndSummary(d) ==
  "<details type=\"reasoning\" done=\"true\" duration=\"" \o Decimal(d)
    \o "\">\n<summary>Thought for " \o Decimal(d)
    \o (IF d = 1 THEN " second" ELSE " seconds") \o "</summary>\n"

StartsAt(doc, p, text) == p # 0 /\ Slice(doc, p, p + Len(text) - 1) = text

\* C11.  For every span with duration d >= 0, its rendered block begins with
\* the header carrying done="true" and duration="d" and the summary line
\* "Thought for d second" when d = 1, "Thought for d seconds" for every
\* other d, 0 included.
C11_DurationPlural ==
  pc = "rendered" =>
    \A n \in 1..Len(Spans) :
      StartsAt(html, DetailsStart(html, n), HeaderAndSummary(Spans[n].duration))

C11_SingularAndPlural ==
  /\ pc = "rendered"
  /\ Len(Spans) = 2
  /\ Spans[1].duration = 0
  /\ Spans[2].duration = 1
  /\ FindLiteral(html, "Thought for 0 seconds</summary>", 1) # 0
  /\ FindLiteral(html, "Thought for 1 second</summary>", 1) # 0

\* C12.  Extraction is complete and idempotent: detect_reasoning_tags finds
\* no span in the main_content that process_content returned, and
\* process_content applied to that main_content returns it unchanged.
C12_ExtractionIdempotent ==
  Processed =>
    /\ detect_reasoning_tags(Residual) = <<>>
    /\ process_content(Residual).main_content = Residual

=============================================================================
